---- MODULE Spec2Model ----
(***************************************************************************)
(* A model of beet's generation / draft / cache subsystem                  *)
(* (src/beet/toolchain/generator.py).                                      *)
(*                                                                         *)
(* Objects live in heaps: gens (Generator and Draft instances), packs      *)
(* (ResourcePack / DataPack instances) and registries (the defaultdict     *)
(* counters).  A generator holds indices into packs and registries, so     *)
(* object identity (the "is" of Draft.apply, the sharing of __getitem__)   *)
(* is index equality.                                                      *)
(***************************************************************************)
EXTENDS Naturals, Sequences, FiniteSets, TLC

VARIABLES
    meta,        \* ctx.meta: the generate_* options of the build
    gens,        \* heap of Generator / Draft instances
    packs,       \* heap of pack contents: <<file type, key>> -> content
    registries,  \* heap of registries: key tuple -> counter
    issued,      \* per registry and key, the values get_increment returned, in call order
    hashCalls,   \* number of stable_hash evaluations of a supplied hash value
    cache,       \* ctx.cache: bucket name -> [json, files]
    cyc,         \* per generator, the position of its Draft.cache iterator
    work,        \* number of register / apply / cache operations performed
    pushed,      \* the push() blocks that are open, innermost last, with what each saved
    last         \* the operation that produced this state, with its result

vars == <<meta, gens, packs, registries, issued, hashCalls, cache, cyc, work, pushed, last>>

(***************************************************************************)
(* Bounds of the model.                                                    *)
(***************************************************************************)
\* The number of state-changing operations of a run: instances created,
\* increments issued, hasher calls, artifacts registered, merges.
MaxOps == 4

\* The number of operations on instances and packs of a run: generators and
\* drafts created, artifacts registered, applies, cache calls.
MaxWork == 5

\* The same, for the runs of the draft specification.
MaxDraft == 4

(***************************************************************************)
(* Values.                                                                 *)
(***************************************************************************)
\* ctx.project_id
project_id == "proj"

\* A scope segment is any hashable value; the code only asks whether it is a
\* string and whether it is truthy.
Seg(s) == [isstr |-> TRUE, v |-> s]
TypeSeg(t) == [isstr |-> FALSE, v |-> t]

\* File types: the classes register() extends the scope with.
DataTypes == {"Function", "FunctionTag"}
AssetTypes == {"Texture"}
FileTypes == DataTypes \cup AssetTypes

EmptyFn == [x \in {} |-> 0]

\* hash=None, or a supplied hash value
NoHash == [given |-> FALSE, v |-> ""]
SomeHash(v) == [given |-> TRUE, v |-> v]

\* Templates are sequences of tokens; a token is literal text or a
\* replacement field.  The template string is the concatenation.
Fields == {"{namespace}", "{path}", "{scope}", "{incr}", "{hash}", "{short_hash}", "{bogus}"}

RECURSIVE Concat(_)
Concat(toks) == IF toks = <<>> THEN "" ELSE Head(toks) \o Concat(Tail(toks))

Occurs(tok, fmt) == \E i \in 1..Len(fmt) : fmt[i] = tok

DefaultPathTemplate == <<"{namespace}", ":", "{path}">>
DefaultPathFmt == <<"generated_", "{incr}">>

(***************************************************************************)
(* Collaborators outside src/, modelled from the specification.            *)
(***************************************************************************)
\* stable_hash(value, short): a deterministic digest, the short form
\* differing from the full one.
stable_hash(value, short) == IF short THEN "h" \o value ELSE "H" \o value \o value

\* LazyFormat: the wrapped computation runs when its field is substituted,
\* once per format call; memo holds the values already computed.
LazyFormat(memo, field) == IF field \in DOMAIN memo THEN <<TRUE, memo[field]>> ELSE <<FALSE, "">>

(***************************************************************************)
(* Generator.get_prefix                                                    *)
(***************************************************************************)
RECURSIVE JoinParts(_, _)
JoinParts(parts, separator) ==
    IF parts = <<>> THEN ""
    ELSE LET part == Head(parts)
         IN  (IF part.isstr /\ part.v # "" THEN part.v \o separator ELSE "")
                \o JoinParts(Tail(parts), separator)

\* A get_prefix that puts the separator between the parts of the scope only
\* (separator.join) and forgets the configured prefix.
get_prefix_joined(g, separator) ==
    IF g.scope = <<>> THEN "" ELSE g.scope[1].v \o separator \o JoinParts(Tail(g.scope), "")

get_prefix(g, separator) ==
    LET prefix == IF "generate_prefix" \in DOMAIN meta /\ meta["generate_prefix"] # ""
                  THEN <<Seg(meta["generate_prefix"])>>
                  ELSE <<>>
    IN  JoinParts(prefix \o g.scope, separator)

(***************************************************************************)
(* Generator.get_increment: on registry value reg, returns the count and   *)
(* the registry after the call.                                            *)
(***************************************************************************)
RegKey(g, key) == <<Seg(project_id)>> \o g.scope \o key

get_increment_by2(reg, g, key) ==
    LET k == RegKey(g, key)
        count == IF k \in DOMAIN reg THEN reg[k] ELSE 0
    IN  [count |-> count, key |-> k,
         reg |-> [x \in DOMAIN reg \cup {k} |-> IF x = k THEN count + 2 ELSE reg[x]]]

get_increment_off(reg, g, key) ==
    LET k == RegKey(g, key)
        count == IF k \in DOMAIN reg THEN reg[k] ELSE 0
    IN  [count |-> count + 1, key |-> k,
         reg |-> [x \in DOMAIN reg \cup {k} |-> IF x = k THEN count + 1 ELSE reg[x]]]

get_increment(reg, g, key) ==
    LET k == RegKey(g, key)
        count == IF k \in DOMAIN reg THEN reg[k] ELSE 0
    IN  [count |-> count, key |-> k,
         reg |-> [x \in DOMAIN reg \cup {k} |-> IF x = k THEN count + 1 ELSE reg[x]]]

(***************************************************************************)
(* Generator.format: str.format_map substitutes the fields left to right;  *)
(* st carries the output so far, the registry, the hasher calls, the       *)
(* increments issued and the lazy values already computed.                 *)
(***************************************************************************)
Namespace == IF "generate_namespace" \in DOMAIN meta THEN meta["generate_namespace"] ELSE project_id

\* An env that holds hash and short_hash whether or not a hash is given.
Env_all(hash) == {"{namespace}", "{path}", "{scope}", "{incr}", "{hash}", "{short_hash}"}

\* The env of one format call: the fields it exposes.
Env(hash) == {"{namespace}", "{path}", "{scope}", "{incr}"}
                \cup (IF hash.given THEN {"{hash}", "{short_hash}"} ELSE {})

\* The computation wrapped for a lazy field: its value and side effects.
Compute(field, g, fmt, hash, st) ==
    CASE field = "{path}" -> [v |-> get_prefix(g, "/"), st |-> st]
      [] field = "{scope}" -> [v |-> get_prefix(g, "."), st |-> st]
      [] field = "{incr}" ->
            LET r == get_increment(st.reg, g, <<Seg(Concat(fmt))>>)
            IN  [v |-> ToString(r.count),
                 st |-> [st EXCEPT !.reg = r.reg,
                                   !.log = Append(@, <<r.key, r.count>>)]]
      [] field = "{hash}" ->
            [v |-> stable_hash(hash.v, FALSE), st |-> [st EXCEPT !.hc = @ + 1]]
      [] field = "{short_hash}" ->
            [v |-> stable_hash(hash.v, TRUE), st |-> [st EXCEPT !.hc = @ + 1]]

Substitute(field, g, fmt, hash, st) ==
    IF field \notin Env(hash) THEN [st EXCEPT !.ok = FALSE]
    ELSE IF field = "{namespace}" THEN [st EXCEPT !.out = @ \o Namespace]
    ELSE LET got == LazyFormat(st.memo, field)
         IN  IF got[1] THEN [st EXCEPT !.out = @ \o got[2]]
             ELSE LET c == Compute(field, g, fmt, hash, st)
                  IN  [c.st EXCEPT !.out = @ \o c.v,
                                   !.memo = [f \in DOMAIN @ \cup {field} |->
                                                IF f = field THEN c.v ELSE @[f]]]

RECURSIVE FormatFrom(_, _, _, _, _)
FormatFrom(i, g, fmt, hash, st) ==
    IF i > Len(fmt) \/ ~st.ok THEN st
    ELSE IF fmt[i] \in Fields
         THEN FormatFrom(i + 1, g, fmt, hash, Substitute(fmt[i], g, fmt, hash, st))
         ELSE FormatFrom(i + 1, g, fmt, hash, [st EXCEPT !.out = @ \o fmt[i]])

FormatStart(reg, hc) ==
    [ok |-> TRUE, out |-> "", reg |-> reg, hc |-> hc, log |-> <<>>,
     memo |-> [f \in {} |-> ""]]

\* A format that fills the env eagerly instead of wrapping it in LazyFormat.
format_eager(g, fmt, hash, reg, hc) ==
    LET s0 == FormatStart(reg, hc)
        s1 == Compute("{incr}", g, fmt, hash, s0)
        s2 == IF hash.given THEN Compute("{hash}", g, fmt, hash, s1.st).st ELSE s1.st
        m  == [f \in {"{incr}"} |-> s1.v]
    IN  FormatFrom(1, g, fmt, hash, [s2 EXCEPT !.memo = m])

format(g, fmt, hash, reg, hc) == FormatFrom(1, g, fmt, hash, FormatStart(reg, hc))

(***************************************************************************)
(* Generator.path                                                          *)
(***************************************************************************)
PathTemplate == IF "generate_path" \in DOMAIN meta THEN meta["generate_path"] ELSE DefaultPathTemplate

path(g, fmt, hash, reg, hc) == format(g, PathTemplate \o fmt, hash, reg, hc)

(***************************************************************************)
(* Initial state: ctx.generate, a Generator built by the dataclass         *)
(* constructor with its default factories (fresh registry, four fresh      *)
(* packs), and an empty cache.                                             *)
(***************************************************************************)
EmptyPack == [x \in {} |-> <<>>]

\* A cache bucket never used: no metadata, no files.
EmptyBucket == [json |-> [x \in {} |-> ""], files |-> [x \in {} |-> EmptyPack]]

NewGen(cls, scope, registry, assets, data, parent_assets, parent_data) ==
    [cls |-> cls, scope |-> scope, registry |-> registry, assets |-> assets,
     data |-> data, parent_assets |-> parent_assets, parent_data |-> parent_data]

Idle == [pc |-> "idle", name |-> "", key |-> "", zipped |-> FALSE, apply |-> FALSE,
         path |-> "", yields |-> 0]

MetaChoices ==
    { [generate_namespace |-> "ns"],
      [generate_prefix |-> "pre", generate_path |-> <<"{namespace}", "/">>] }

NoOp == [op |-> "init", g |-> 0, fmt |-> <<>>, hash |-> NoHash, ok |-> TRUE,
         out |-> "", n |-> 0, criterion |-> "", display |-> "",
         file |-> [type |-> "", content |-> <<>>], err |-> ""]

Init ==
    /\ meta \in MetaChoices
    /\ gens = <<NewGen("Generator", <<>>, 1, 1, 2, 3, 4)>>
    /\ packs = <<EmptyPack, EmptyPack, EmptyPack, EmptyPack>>
    /\ registries = <<EmptyFn>>
    /\ issued = <<EmptyFn>>
    /\ hashCalls = 0
    /\ cache = [x \in {} |-> EmptyBucket]
    /\ cyc = <<Idle>>
    /\ work = 0
    /\ pushed = <<>>
    /\ last = NoOp

GenIds == 1..Len(gens)

\* Operations used so far, counted against MaxOps.
RECURSIVE Sum(_, _)
Sum(f, S) == IF S = {} THEN 0 ELSE LET x == CHOOSE y \in S : TRUE IN f[x] + Sum(f, S \ {x})

Total(reg) == Sum(reg, DOMAIN reg)

Used == Len(gens) - 1 + Total(registries[1]) + hashCalls

(***************************************************************************)
(* Generator.__getitem__ (with_scope): a new instance of the receiver's    *)
(* class, sharing everything but the scope.                                *)
(***************************************************************************)
SegChoices == {Seg("a"), Seg("b")}

getitem_reset(g, key) ==
    NewGen(g.cls, <<key>>, g.registry, g.assets, g.data, g.parent_assets, g.parent_data)

getitem(g, key) ==
    NewGen(g.cls, g.scope \o <<key>>, g.registry, g.assets, g.data,
           g.parent_assets, g.parent_data)

GetItem(i, key) ==
    /\ Used < MaxOps
    /\ work < MaxWork
    /\ gens' = Append(gens, getitem(gens[i], key))
    /\ cyc' = Append(cyc, Idle)
    /\ work' = work + 1
    /\ last' = [NoOp EXCEPT !.op = "getitem", !.g = i, !.n = Len(gens) + 1]
    /\ UNCHANGED <<pushed, meta, packs, registries, issued, hashCalls, cache>>

(***************************************************************************)
(* The naming calls, within the budget of MaxOps.                          *)
(***************************************************************************)
RECURSIVE LogIssued(_, _)
LogIssued(iss, log) ==
    IF log = <<>> THEN iss
    ELSE LET k == Head(log)[1]
             c == Head(log)[2]
             old == IF k \in DOMAIN iss THEN iss[k] ELSE <<>>
         IN  LogIssued([x \in DOMAIN iss \cup {k} |->
                            IF x = k THEN Append(old, c) ELSE iss[x]], Tail(log))

Capped(reg, hc) == Len(gens) - 1 + Total(reg) + hc <= MaxOps

KeyChoices == {<<Seg("{scope}{incr}_{incr}")>>}

GetIncrementCall(i, key) ==
    LET r == get_increment(registries[gens[i].registry], gens[i], key)
    IN  /\ Capped(r.reg, hashCalls)
        /\ registries' = [registries EXCEPT ![gens[i].registry] = r.reg]
        /\ issued' = [issued EXCEPT ![gens[i].registry] = LogIssued(@, <<<<r.key, r.count>>>>)]
        /\ last' = [NoOp EXCEPT !.op = "get_increment", !.g = i, !.n = r.count]
        /\ UNCHANGED <<pushed, meta, gens, packs, hashCalls, cache, cyc, work>>

FormatChoices ==
    { <<<<"{scope}", "{incr}", "_", "{incr}">>, SomeHash("c")>>,
      <<<<"k_", "{hash}", "{short_hash}", "{hash}">>, SomeHash("c")>>,
      <<<<"{incr}", "{bogus}">>, NoHash>> }

\* The effect of a naming call whose formatting ended in state st.
Named(op, i, fmt, hash, st) ==
    /\ Capped(st.reg, st.hc)
    /\ registries' = [registries EXCEPT ![gens[i].registry] = st.reg]
    /\ issued' = [issued EXCEPT ![gens[i].registry] = LogIssued(@, st.log)]
    /\ hashCalls' = st.hc
    /\ last' = [NoOp EXCEPT !.op = op, !.g = i, !.fmt = fmt, !.hash = hash,
                            !.ok = st.ok, !.out = IF st.ok THEN st.out ELSE "",
                            !.err = IF st.ok THEN "" ELSE "KeyError"]
    /\ UNCHANGED <<pushed, meta, gens, packs, cache, cyc, work>>

FormatCall(i, fmt, hash) ==
    Named("format", i, fmt, hash,
          format(gens[i], fmt, hash, registries[gens[i].registry], hashCalls))

PathChoices == {DefaultPathFmt}

PathCall(i, fmt) ==
    Named("path", i, fmt, NoHash,
          path(gens[i], fmt, NoHash, registries[gens[i].registry], hashCalls))

(***************************************************************************)
(* Generator.objective: display=None is written "".                        *)
(***************************************************************************)
DefaultObjectiveTemplate == <<"{namespace}", ".", "{scope}">>

ObjectiveTemplate ==
    IF "generate_objective" \in DOMAIN meta THEN meta["generate_objective"]
    ELSE DefaultObjectiveTemplate

\* json.dumps of a string: the string in double quotes.
json_dumps(s) == "\"" \o s \o "\""

\* ctx.meta["generate_scoreboard"], where set
Scoreboard(m) ==
    IF "generate_scoreboard" \in DOMAIN m THEN m["generate_scoreboard"] ELSE [x \in {} |-> ""]

\* The calls made: (fmt, hash, criterion, display).
ObjectiveChoices ==
    { <<<<"{incr}">>, NoHash, "dummy", "">>,
      <<<<"{incr}">>, NoHash, "dummy", "Score">>,
      <<<<"obj_", "{short_hash}">>, SomeHash("c"), "trigger", "">> }

\* An objective whose name is the digest of the template.
objective_static(g, fmt, hash, criterion, display, reg, hc) ==
    LET st == format(g, ObjectiveTemplate \o fmt, hash, reg, hc)
    IN  [st |-> st, objective |-> stable_hash(Concat(ObjectiveTemplate \o fmt), FALSE),
         entry |-> criterion \o " " \o json_dumps(IF display # "" THEN display ELSE st.out)]

\* The formatting state, the objective name and the scoreboard entry.
objective(g, fmt, hash, criterion, display, reg, hc) ==
    LET st == format(g, ObjectiveTemplate \o fmt, hash, reg, hc)
    IN  [st |-> st, objective |-> stable_hash(st.out, FALSE),
         entry |-> criterion \o " " \o json_dumps(IF display # "" THEN display ELSE st.out)]

Objective(i, fmt, hash, criterion, display) ==
    LET o == objective(gens[i], fmt, hash, criterion, display,
                       registries[gens[i].registry], hashCalls)
        sb == Scoreboard(meta)
    IN  /\ Capped(o.st.reg, o.st.hc)
        /\ registries' = [registries EXCEPT ![gens[i].registry] = o.st.reg]
        /\ issued' = [issued EXCEPT ![gens[i].registry] = LogIssued(@, o.st.log)]
        /\ hashCalls' = o.st.hc
        /\ meta' = IF o.st.ok
                   THEN [x \in DOMAIN meta \cup {"generate_scoreboard"} |->
                            IF x = "generate_scoreboard"
                            THEN [n \in DOMAIN sb \cup {o.objective} |->
                                    IF n = o.objective THEN o.entry ELSE sb[n]]
                            ELSE meta[x]]
                   ELSE meta
        /\ last' = [NoOp EXCEPT !.op = "objective", !.g = i, !.fmt = fmt, !.hash = hash,
                                !.ok = o.st.ok, !.out = IF o.st.ok THEN o.objective ELSE "",
                                !.criterion = criterion, !.display = display]
        /\ UNCHANGED <<pushed, gens, packs, cache, cyc, work>>

(***************************************************************************)
(* Packs.  merge, load, save and truthiness belong to the container        *)
(* collaborator (beet.library), outside src/: merge is last-write-wins     *)
(* except for list-like files, whose contents are appended; load merges    *)
(* the snapshot stored at a path into the pack; a path never saved loads   *)
(* nothing.                                                                *)
(***************************************************************************)
ListLikeTypes == {"FunctionTag"}

PackMerge(dst, src) ==
    [k \in DOMAIN dst \cup DOMAIN src |->
        IF k \notin DOMAIN src THEN dst[k]
        ELSE IF k \in DOMAIN dst /\ k[1] \in ListLikeTypes THEN dst[k] \o src[k]
        ELSE src[k]]

PackLoad(pack, files, p) == IF p \in DOMAIN files THEN PackMerge(pack, files[p]) ELSE pack

PackSave(files, p, pack) == [x \in DOMAIN files \cup {p} |-> IF x = p THEN pack ELSE files[x]]

PackBool(pack) == DOMAIN pack # {}

(***************************************************************************)
(* Generator.draft                                                         *)
(***************************************************************************)
\* A draft that works on the receiver's own packs.
draft_shared(g, fresh) ==
    NewGen("Draft", g.scope, g.registry, g.assets, g.data, g.assets, g.data)

\* A draft of a draft that takes the parents of the draft it is made from.
draft_flat(g, fresh) ==
    NewGen("Draft", g.scope, g.registry, fresh, fresh + 1,
           IF g.cls = "Draft" THEN g.parent_assets ELSE g.assets,
           IF g.cls = "Draft" THEN g.parent_data ELSE g.data)

\* fresh is the index of the first of the two packs the call creates.
draft(g, fresh) ==
    NewGen("Draft", g.scope, g.registry, fresh, fresh + 1, g.assets, g.data)

DraftNew(i) ==
    /\ Used < MaxOps
    /\ work < MaxWork
    /\ gens' = Append(gens, draft(gens[i], Len(packs) + 1))
    /\ packs' = packs \o <<EmptyPack, EmptyPack>>
    /\ cyc' = Append(cyc, Idle)
    /\ work' = work + 1
    /\ last' = [NoOp EXCEPT !.op = "draft", !.g = i, !.n = Len(gens) + 1]
    /\ UNCHANGED <<pushed, meta, registries, issued, hashCalls, cache>>

(***************************************************************************)
(* Generator.__call__ (register), without a render target: args is         *)
(* (fmt, file_instance) or (file_instance,), the latter written fmt = <<>>.*)
(***************************************************************************)
File(type, content) == [type |-> type, content |-> content]

\* The calls made: a texture under a generated name, then two textures and a
\* tag under the explicit name "foo".
RegisterChoices ==
    { <<<<>>, File("Texture", <<"p">>)>>,
      <<<<"foo">>, File("Texture", <<"p">>)>>,
      <<<<"foo">>, File("Texture", <<"q">>)>>,
      <<<<"foo">>, File("FunctionTag", <<"v">>)>> }

\* A register that always picks the assets.
PackOf_assets(g, file_type) == g.assets

PackOf(g, file_type) == IF file_type \in DataTypes THEN g.data ELSE g.assets

RegisterKey(g, fmt, file, reg, hc) ==
    LET hash == SomeHash(Concat(file.content))
        scoped == getitem(g, TypeSeg(file.type))
    IN  IF fmt # <<>> THEN path(scoped, fmt, hash, reg, hc)
        ELSE path(scoped, DefaultPathFmt, hash, reg, hc)

Register(i, fmt, file) ==
    LET g == gens[i]
        st == RegisterKey(g, fmt, file, registries[g.registry], hashCalls)
        pack == PackOf(g, file.type)
        k == <<file.type, st.out>>
    IN  /\ work < MaxWork
        /\ Capped(st.reg, st.hc)
        /\ registries' = [registries EXCEPT ![g.registry] = st.reg]
        /\ issued' = [issued EXCEPT ![g.registry] = LogIssued(@, st.log)]
        /\ hashCalls' = st.hc
        /\ packs' = IF st.ok
                    THEN [packs EXCEPT ![pack] =
                            [x \in DOMAIN @ \cup {k} |-> IF x = k THEN file.content ELSE @[x]]]
                    ELSE packs
        /\ work' = work + 1
        /\ last' = [NoOp EXCEPT !.op = "register", !.g = i, !.fmt = fmt, !.ok = st.ok,
                                !.out = IF st.ok THEN st.out ELSE "", !.file = file]
        /\ UNCHANGED <<pushed, meta, gens, cache, cyc>>

\* The positional arguments of a register call without a render target:
\* (fmt, file_instance), (file_instance,) or none, where args[0] raises.
ArgsChoices ==
    { <<>>,
      <<File("Texture", <<"p">>)>>,
      <<<<"foo">>, File("FunctionTag", <<"v">>)>> }

\* A reading of the arguments that makes up an artifact when there is none.
register_args_lenient(args) ==
    IF Len(args) = 2 THEN [ok |-> TRUE, fmt |-> args[1], file |-> args[2]]
    ELSE IF Len(args) = 1 THEN [ok |-> TRUE, fmt |-> <<>>, file |-> args[1]]
    ELSE [ok |-> TRUE, fmt |-> <<>>, file |-> NoOp.file]

register_args(args) ==
    IF Len(args) = 2 THEN [ok |-> TRUE, fmt |-> args[1], file |-> args[2]]
    ELSE IF Len(args) >= 1 THEN [ok |-> TRUE, fmt |-> <<>>, file |-> args[1]]
    ELSE [ok |-> FALSE, fmt |-> <<>>, file |-> NoOp.file]

RegisterArgs(i, args) ==
    LET a == register_args(args)
    IN  IF a.ok THEN Register(i, a.fmt, a.file)
        ELSE /\ last' = [NoOp EXCEPT !.op = "register", !.g = i, !.ok = FALSE,
                                     !.err = "IndexError"]
             /\ UNCHANGED <<pushed, meta, gens, packs, registries, issued, hashCalls, cache, cyc, work>>

(***************************************************************************)
(* Draft.apply                                                             *)
(***************************************************************************)
\* An apply that merges the assets and forgets the data.
draft_apply_assets(d, pk) ==
    IF d.assets # d.parent_assets
    THEN [pk EXCEPT ![d.parent_assets] = PackMerge(@, pk[d.assets])]
    ELSE pk

\* An apply that merges the draft twice.
draft_apply_twice(d, pk) ==
    [pk EXCEPT ![d.parent_assets] = PackMerge(PackMerge(@, pk[d.assets]), pk[d.assets]),
               ![d.parent_data] = PackMerge(PackMerge(@, pk[d.data]), pk[d.data])]

draft_apply(d, pk) ==
    LET p1 == IF d.assets # d.parent_assets
              THEN [pk EXCEPT ![d.parent_assets] = PackMerge(@, pk[d.assets])]
              ELSE pk
    IN  IF d.data # d.parent_data
        THEN [p1 EXCEPT ![d.parent_data] = PackMerge(@, p1[d.data])]
        ELSE p1

Apply(i) ==
    /\ gens[i].cls = "Draft"
    /\ work < MaxWork
    /\ packs' = draft_apply(gens[i], packs)
    /\ work' = work + 1
    /\ last' = [NoOp EXCEPT !.op = "apply", !.g = i]
    /\ UNCHANGED <<pushed, meta, gens, registries, issued, hashCalls, cache, cyc>>

(***************************************************************************)
(* Draft.cache, an iterator: CacheStart is its first next(), which ends    *)
(* the iterator on a hit and suspends it at the yield on a miss;           *)
(* CacheResume is the next() after the body.  A draft drives one iterator  *)
(* at a time; cyc[i].yields counts the times it handed control to the body.*)
(***************************************************************************)
\* The calls made: (name, key, zipped, apply).
CacheChoices ==
    { <<"mycache", "v1", FALSE, FALSE>>,
      <<"mycache", "v1", TRUE, TRUE>>,
      <<"mycache", "v2", FALSE, TRUE>> }

\* ctx.cache[name]
Bucket(name) == IF name \in DOMAIN cache THEN cache[name] ELSE EmptyBucket

CachedPaths(zipped) ==
    LET suffix == IF zipped THEN ".zip" ELSE ""
    IN  [rp |-> "draft_resource_pack" \o suffix, dp |-> "draft_data_pack" \o suffix]

\* An effective key that leaves the zipped flag out.
EffKey_plain(key, zipped) == key

\* f"{key} {zipped=}"
EffKey(key, zipped) == key \o " zipped=" \o (IF zipped THEN "True" ELSE "False")

\* A test that never finds the key.
IsHit_never(bucket, ek) == FALSE

\* cache.json.get("draft_key") == key
IsHit(bucket, ek) == "draft_key" \in DOMAIN bucket.json /\ bucket.json["draft_key"] = ek

CacheStart(i, name, key, zipped, apply) ==
    LET d == gens[i]
        b == Bucket(name)
        paths == CachedPaths(zipped)
        ek == EffKey(key, zipped)
        loaded == [packs EXCEPT ![d.assets] = PackLoad(@, b.files, paths.rp),
                                ![d.data] = PackLoad(@, b.files, paths.dp)]
        c == [Idle EXCEPT !.name = name, !.key = key, !.zipped = zipped, !.apply = apply]
    IN  /\ d.cls = "Draft"
        /\ cyc[i].pc # "yielded"
        /\ work < MaxWork
        /\ IF IsHit(b, ek)
           THEN /\ packs' = IF apply THEN draft_apply(d, loaded) ELSE loaded
                /\ cyc' = [cyc EXCEPT ![i] = [c EXCEPT !.pc = "done", !.path = "hit"]]
           ELSE /\ packs' = packs
                /\ cyc' = [cyc EXCEPT ![i] = [c EXCEPT !.pc = "yielded", !.path = "miss",
                                                       !.yields = 1]]
        /\ work' = work + 1
        /\ last' = [NoOp EXCEPT !.op = "cache", !.g = i]
        /\ UNCHANGED <<pushed, meta, gens, registries, issued, hashCalls, cache>>

CacheResume(i) ==
    LET d == gens[i]
        c == cyc[i]
        b == Bucket(c.name)
        paths == CachedPaths(c.zipped)
        f1 == IF PackBool(packs[d.assets]) THEN PackSave(b.files, paths.rp, packs[d.assets])
              ELSE b.files
        f2 == IF PackBool(packs[d.data]) THEN PackSave(f1, paths.dp, packs[d.data]) ELSE f1
        j == [x \in DOMAIN b.json \cup {"draft_key"} |->
                IF x = "draft_key" THEN EffKey(c.key, c.zipped) ELSE b.json[x]]
    IN  /\ c.pc = "yielded"
        /\ cache' = [x \in DOMAIN cache \cup {c.name} |->
                        IF x = c.name THEN [json |-> j, files |-> f2] ELSE cache[x]]
        /\ packs' = IF c.apply THEN draft_apply(d, packs) ELSE packs
        /\ cyc' = [cyc EXCEPT ![i].pc = "done"]
        /\ last' = [NoOp EXCEPT !.op = "resume", !.g = i]
        /\ UNCHANGED <<pushed, meta, gens, registries, issued, hashCalls, work>>

(***************************************************************************)
(* Draft.cache, a cycle that does not complete.  The iterator has no       *)
(* try / finally: when the body raises, or the loop is left and the        *)
(* iterator is never resumed, the code after the yield does not run.       *)
(***************************************************************************)
\* An abort that runs the code after the yield, as a finally clause would.
CacheAbort_finally(i) ==
    LET d == gens[i]
        c == cyc[i]
        b == Bucket(c.name)
        paths == CachedPaths(c.zipped)
        f1 == IF PackBool(packs[d.assets]) THEN PackSave(b.files, paths.rp, packs[d.assets])
              ELSE b.files
        j == [x \in DOMAIN b.json \cup {"draft_key"} |->
                IF x = "draft_key" THEN EffKey(c.key, c.zipped) ELSE b.json[x]]
    IN  /\ c.pc = "yielded"
        /\ cache' = [x \in DOMAIN cache \cup {c.name} |->
                        IF x = c.name THEN [json |-> j, files |-> f1] ELSE cache[x]]
        /\ cyc' = [cyc EXCEPT ![i].pc = "aborted"]
        /\ last' = [NoOp EXCEPT !.op = "abort", !.g = i]
        /\ UNCHANGED <<pushed, meta, gens, packs, registries, issued, hashCalls, work>>

CacheAbort(i) ==
    /\ cyc[i].pc = "yielded"
    /\ cyc' = [cyc EXCEPT ![i].pc = "aborted"]
    /\ last' = [NoOp EXCEPT !.op = "abort", !.g = i]
    /\ UNCHANGED <<pushed, meta, gens, packs, registries, issued, hashCalls, cache, work>>

(***************************************************************************)
(* Draft.cache, a resumption in which a save raises.  Pack.save belongs to *)
(* the container collaborator; a save that fails writes nothing.  The      *)
(* exception leaves the iterator at the failing line.                      *)
(***************************************************************************)
SaveSteps == {"assets", "data"}

\* A resumption that stores the key before it saves.
cache_fail_keyed(d, c, b, pk, which) ==
    [json |-> [x \in DOMAIN b.json \cup {"draft_key"} |->
                 IF x = "draft_key" THEN EffKey(c.key, c.zipped) ELSE b.json[x]],
     files |-> b.files]

\* The bucket after a resumption whose save of the assets (which = "assets")
\* or of the data (which = "data") raises.
cache_fail(d, c, b, pk, which) ==
    [json |-> b.json,
     files |-> IF which = "data" /\ PackBool(pk[d.assets])
               THEN PackSave(b.files, CachedPaths(c.zipped).rp, pk[d.assets])
               ELSE b.files]

CacheSaveFail(i, which) ==
    LET d == gens[i]
        c == cyc[i]
    IN  /\ c.pc = "yielded"
        /\ PackBool(packs[IF which = "assets" THEN d.assets ELSE d.data])
        /\ cache' = [x \in DOMAIN cache \cup {c.name} |->
                        IF x = c.name THEN cache_fail(d, c, Bucket(c.name), packs, which)
                        ELSE cache[x]]
        /\ cyc' = [cyc EXCEPT ![i].pc = "failed"]
        /\ last' = [NoOp EXCEPT !.op = "savefail", !.g = i]
        /\ UNCHANGED <<pushed, meta, gens, packs, registries, issued, hashCalls, work>>

NextNaming ==
    \/ \E i \in GenIds, key \in SegChoices : GetItem(i, key)
    \/ \E i \in GenIds : DraftNew(i)
    \/ \E i \in GenIds, key \in KeyChoices : GetIncrementCall(i, key)
    \/ \E i \in GenIds, c \in FormatChoices : FormatCall(i, c[1], c[2])
    \/ \E i \in GenIds, fmt \in PathChoices : PathCall(i, fmt)

SpecNaming == Init /\ [][NextNaming]_vars

NextObjective ==
    \/ \E i \in GenIds : GetItem(i, Seg("a"))
    \/ \E i \in GenIds, c \in ObjectiveChoices : Objective(i, c[1], c[2], c[3], c[4])

SpecObjective == Init /\ [][NextObjective]_vars

\* The draft specification starts from one build configuration.
InitDraft == Init /\ meta = [generate_namespace |-> "ns"]

\* Its runs are MaxDraft operations long.
InDraftRun == work < MaxDraft

\* The templates of the calls that fail, and of calls that return.
ErrFormatChoices ==
    { <<<<"{bogus}">>, NoHash>>,
      <<<<"{hash}">>, NoHash>>,
      <<<<"{hash}", "{short_hash}">>, SomeHash("c")>>,
      <<<<"{incr}", "{bogus}">>, SomeHash("c")>>,
      <<<<"{namespace}", "{path}", "{scope}", "{incr}">>, NoHash>> }

NextErrors ==
    \/ InDraftRun /\ GetItem(1, Seg("a"))
    \/ \E i \in GenIds, c \in ErrFormatChoices : FormatCall(i, c[1], c[2])
    \/ \E i \in GenIds, args \in ArgsChoices : InDraftRun /\ RegisterArgs(i, args)

SpecErrors == InitDraft /\ [][NextErrors]_vars

\* Scope segments of every kind: a string, the empty string, a value that
\* is not a string (a file type, as register() appends).
ScopeChoices == {Seg("a"), Seg(""), TypeSeg("Function")}

NextUnique ==
    \/ \E i \in GenIds, key \in ScopeChoices : GetItem(i, key)
    \/ \E i \in GenIds : DraftNew(i)
    \/ \E i \in GenIds : PathCall(i, DefaultPathFmt)

SpecUnique == InitDraft /\ [][NextUnique]_vars

NextDraft ==
    \/ \E i \in GenIds : InDraftRun /\ GetItem(i, Seg("a"))
    \/ \E i \in GenIds : InDraftRun /\ DraftNew(i)
    \/ \E i \in GenIds, c \in RegisterChoices : InDraftRun /\ Register(i, c[1], c[2])
    \/ \E i \in GenIds : InDraftRun /\ Apply(i)

SpecDraft == InitDraft /\ [][NextDraft]_vars

NextCache ==
    \/ \E i \in GenIds : DraftNew(i)
    \/ \E i \in GenIds, c \in RegisterChoices : Register(i, c[1], c[2])
    \/ \E i \in GenIds, c \in CacheChoices : CacheStart(i, c[1], c[2], c[3], c[4])
    \/ \E i \in GenIds : CacheResume(i)

SpecCache == InitDraft /\ [][NextCache]_vars

\* Drafts of drafts: a texture under a generated name and a tag under the
\* name "foo", registered at any level and applied in any order.
NestedChoices ==
    { <<<<>>, File("Texture", <<"p">>)>>,
      <<<<"foo">>, File("FunctionTag", <<"v">>)>> }

NextNested ==
    \/ \E i \in GenIds : DraftNew(i)
    \/ \E i \in GenIds, c \in NestedChoices : Register(i, c[1], c[2])
    \/ \E i \in GenIds : Apply(i)

SpecNested == InitDraft /\ [][NextNested]_vars

\* Cache cycles run one after the other, as the loops of one build do: a
\* cache call is made when no other cycle is suspended at its yield.
NoCycleOpen == \A j \in GenIds : cyc[j].pc # "yielded"

NextSerial ==
    \/ DraftNew(1)
    \/ \E i \in GenIds, c \in RegisterChoices : Register(i, c[1], c[2])
    \/ \E i \in GenIds, c \in CacheChoices :
          NoCycleOpen /\ CacheStart(i, c[1], c[2], c[3], c[4])
    \/ \E i \in GenIds : CacheResume(i)

SpecSerial == InitDraft /\ [][NextSerial]_vars

\* Cache cycles, one after the other, that complete, are abandoned, or fail
\* to save.
NextAbort ==
    \/ InDraftRun /\ DraftNew(1)
    \/ \E i \in GenIds, c \in RegisterChoices : InDraftRun /\ Register(i, c[1], c[2])
    \/ \E i \in GenIds, c \in CacheChoices :
          InDraftRun /\ NoCycleOpen /\ CacheStart(i, c[1], c[2], c[3], c[4])
    \/ \E i \in GenIds : CacheResume(i)
    \/ \E i \in GenIds : CacheAbort(i)
    \/ \E i \in GenIds, which \in SaveSteps : CacheSaveFail(i, which)

SpecAbort == InitDraft /\ [][NextAbort]_vars

(***************************************************************************)
(* Two builds of one project.  A build runs the plugin of the project on a *)
(* new context: a new root Generator with a new registry and new packs;    *)
(* the cache on disk is the one thing the builds share.  The plugin makes  *)
(* register calls on ctx.generate (before), opens a cached draft block     *)
(* with apply=True whose body makes register calls on the draft (body),    *)
(* and makes register calls on ctx.generate again (after):                 *)
(*     generate(...)                                                       *)
(*     for draft in generate.draft().cache("mycache", "v1", zipped, True): *)
(*         draft(...)                                                      *)
(*     generate(...)                                                       *)
(* The project's plugin is part of its configuration; it is kept in meta   *)
(* under "pipeline".                                                       *)
(***************************************************************************)
\* Generator.__call__ as a function of the packs, the registry and the
\* hasher calls s = [packs, reg, hc, log, ok].
register(g, fmt, file, s) ==
    LET st == RegisterKey(g, fmt, file, s.reg, s.hc)
        k == <<file.type, st.out>>
    IN  [packs |-> IF st.ok
                   THEN [s.packs EXCEPT ![PackOf(g, file.type)] =
                            [x \in DOMAIN @ \cup {k} |-> IF x = k THEN file.content ELSE @[x]]]
                   ELSE s.packs,
         reg |-> st.reg, hc |-> st.hc, log |-> s.log \o st.log, ok |-> s.ok /\ st.ok]

\* A sequence of register calls <<fmt, file>> on generator g.
RECURSIVE RunCalls(_, _, _)
RunCalls(g, calls, s) ==
    IF calls = <<>> \/ ~s.ok THEN s
    ELSE RunCalls(g, Tail(calls), register(g, Head(calls)[1], Head(calls)[2], s))

Pipelines ==
    [before : { <<>>, << <<<<>>, File("Texture", <<"p">>)>> >> },
     body   : { << <<<<>>, File("Texture", <<"p">>)>> >>,
                << <<<<"foo">>, File("FunctionTag", <<"v">>)>> >>,
                << <<<<>>, File("Texture", <<"p">>)>>, <<<<"foo">>, File("FunctionTag", <<"v">>)>> >> },
     after  : { << <<<<>>, File("Texture", <<"q">>)>> >>,
                << <<<<"bar">>, File("Texture", <<"q">>)>> >> },
     zipped : BOOLEAN]

InitBuilds ==
    /\ meta \in {[generate_namespace |-> "ns", pipeline |-> pl] : pl \in Pipelines}
    /\ gens = <<NewGen("Generator", <<>>, 1, 1, 2, 3, 4)>>
    /\ packs = <<EmptyPack, EmptyPack, EmptyPack, EmptyPack>>
    /\ registries = <<EmptyFn>>
    /\ issued = <<EmptyFn>>
    /\ hashCalls = 0
    /\ cache = [x \in {} |-> EmptyBucket]
    /\ cyc = <<Idle>>
    /\ work = 0
    /\ pushed = <<>>
    /\ last = NoOp

\* ctx.generate of the build that is running, and the draft of its block.
Roots == {i \in GenIds : gens[i].cls = "Generator"}
CurrentRoot == CHOOSE i \in Roots : \A j \in Roots : j <= i
CurrentDraft == CurrentRoot + 1

\* The register calls of one part of the plugin, on generator i.
BuildCalls(i, calls, op) ==
    LET g == gens[i]
        s == RunCalls(g, calls, [packs |-> packs, reg |-> registries[g.registry],
                                 hc |-> hashCalls, log |-> <<>>, ok |-> TRUE])
    IN  /\ packs' = s.packs
        /\ registries' = [registries EXCEPT ![g.registry] = s.reg]
        /\ issued' = [issued EXCEPT ![g.registry] = LogIssued(@, s.log)]
        /\ hashCalls' = s.hc
        /\ work' = work + Len(calls)
        /\ last' = [NoOp EXCEPT !.op = op, !.g = i, !.ok = s.ok]
        /\ UNCHANGED <<pushed, meta, gens, cache, cyc>>

BuildBefore ==
    /\ last.op \in {"init", "build"}
    /\ BuildCalls(CurrentRoot, meta["pipeline"].before, "before")

\* generate.draft().cache("mycache", "v1", zipped, True), up to its return
\* on a hit or its yield on a miss.
BuildCache ==
    LET r == gens[CurrentRoot]
        d == draft(r, Len(packs) + 1)
        zipped == meta["pipeline"].zipped
        b == Bucket("mycache")
        paths == CachedPaths(zipped)
        pk == packs \o <<EmptyPack, EmptyPack>>
        loaded == [pk EXCEPT ![d.assets] = PackLoad(@, b.files, paths.rp),
                             ![d.data] = PackLoad(@, b.files, paths.dp)]
        c == [Idle EXCEPT !.name = "mycache", !.key = "v1", !.zipped = zipped, !.apply = TRUE]
        hit == IsHit(b, EffKey("v1", zipped))
    IN  /\ last.op = "before"
        /\ gens' = Append(gens, d)
        /\ packs' = IF hit THEN draft_apply(d, loaded) ELSE pk
        /\ cyc' = Append(cyc, IF hit THEN [c EXCEPT !.pc = "done", !.path = "hit"]
                                     ELSE [c EXCEPT !.pc = "yielded", !.path = "miss",
                                                    !.yields = 1])
        /\ work' = work + 2
        /\ last' = [NoOp EXCEPT !.op = "cache", !.g = Len(gens) + 1]
        /\ UNCHANGED <<pushed, meta, registries, issued, hashCalls, cache>>

BuildBody ==
    /\ last.op = "cache"
    /\ cyc[CurrentDraft].pc = "yielded"
    /\ BuildCalls(CurrentDraft, meta["pipeline"].body, "body")

BuildResume ==
    /\ last.op = "body"
    /\ CacheResume(CurrentDraft)

BuildAfter ==
    /\ last.op = "resume" \/ (last.op = "cache" /\ cyc[CurrentDraft].pc = "done")
    /\ BuildCalls(CurrentRoot, meta["pipeline"].after, "after")

\* The next build: a new context, with the cache of the build before.
NewBuild ==
    /\ last.op = "after"
    /\ Cardinality(Roots) = 1
    /\ gens' = Append(gens, NewGen("Generator", <<>>, Len(registries) + 1,
                                   Len(packs) + 1, Len(packs) + 2, Len(packs) + 3,
                                   Len(packs) + 4))
    /\ packs' = packs \o <<EmptyPack, EmptyPack, EmptyPack, EmptyPack>>
    /\ registries' = Append(registries, EmptyFn)
    /\ issued' = Append(issued, EmptyFn)
    /\ cyc' = Append(cyc, Idle)
    /\ last' = [NoOp EXCEPT !.op = "build", !.g = Len(gens) + 1]
    /\ UNCHANGED <<pushed, meta, hashCalls, cache, work>>

NextBuilds ==
    \/ BuildBefore
    \/ BuildCache
    \/ BuildBody
    \/ BuildResume
    \/ BuildAfter
    \/ NewBuild

SpecBuilds == InitBuilds /\ [][NextBuilds]_vars

(***************************************************************************)
(* Properties of the naming calls, checked under SpecNaming.               *)
(***************************************************************************)
Counting(n) == [i \in 1..n |-> i - 1]

\* The template a naming call hands to format.
FullFmt(l) == IF l.op = "path" THEN PathTemplate \o l.fmt ELSE l.fmt

IsNaming(l) == l.op \in {"format", "path"}

\* C6: for every registry key, the values get_increment returned for it are
\* 0, 1, 2, ... in call order, whatever calls for other keys came between
\* and whichever generator sharing the registry made them; the registry holds
\* the number of calls made.
C6_IncrementsCount ==
    \A r \in 1..Len(registries) :
        /\ DOMAIN issued[r] = DOMAIN registries[r]
        /\ \A k \in DOMAIN issued[r] :
              /\ issued[r][k] = Counting(Len(issued[r][k]))
              /\ registries[r][k] = Len(issued[r][k])

C6_Witness ==
    /\ last.op = "get_increment" /\ last.n = 1
    /\ gens[last.g].cls = "Draft"
    /\ \E k1, k2 \in DOMAIN issued[1] :
          /\ k1 # k2
          /\ issued[1][k1] = <<0, 1>>
          /\ issued[1][k2] = <<0>>

\* The call of the default path() in scope ("a", "b") and namespace "ns".
DefaultPathKey == <<Seg(project_id), Seg("a"), Seg("b"), Seg("{namespace}:{path}generated_{incr}")>>

C7_Case ==
    /\ last.op = "path" /\ last.fmt = DefaultPathFmt /\ ~last.hash.given
    /\ Namespace = "ns"
    /\ "generate_path" \notin DOMAIN meta
    /\ "generate_prefix" \notin DOMAIN meta
    /\ gens[last.g].scope = <<Seg("a"), Seg("b")>>

\* C7: with namespace "ns", no configured path template or prefix and scope
\* ("a", "b"), the n-th path() call with the default template and no hash
\* returns "ns:a/b/generated_<n-1>": generated_0 first, generated_1 second.
C7_DefaultPath ==
    C7_Case =>
        LET reg == registries[gens[last.g].registry]
            n == reg[DefaultPathKey]
        IN  /\ last.ok
            /\ DefaultPathKey \in DOMAIN reg
            /\ n = 1 => last.out = "ns:a/b/generated_0"
            /\ n = 2 => last.out = "ns:a/b/generated_1"
            /\ last.out = "ns:a/b/generated_" \o ToString(n - 1)

C7_Witness == C7_Case /\ last.out = "ns:a/b/generated_1"

\* One format or path step.
C8_Step ==
    IsNaming(last') =>
        /\ ~Occurs("{incr}", FullFmt(last')) => registries' = registries
        /\ (~Occurs("{hash}", FullFmt(last')) /\ ~Occurs("{short_hash}", FullFmt(last')))
              => hashCalls' = hashCalls

\* C8: a format call whose template has no {incr} leaves every registry
\* counter unchanged, and one whose template has no {hash} or {short_hash}
\* never runs the hasher on the supplied hash value.
C8_UnusedNotEvaluated == [][C8_Step]_vars

C8_Witness ==
    /\ last.op = "format" /\ last.ok /\ last.hash.given
    /\ Occurs("{incr}", last.fmt) /\ ~Occurs("{hash}", last.fmt)
    /\ hashCalls = 2
    /\ Total(registries[1]) = 1

\* The output of a template with the one value incr for every {incr}.
RECURSIVE Rendered(_, _, _, _)
Rendered(fmt, g, hash, incr) ==
    IF fmt = <<>> THEN ""
    ELSE (CASE Head(fmt) = "{incr}" -> incr
            [] Head(fmt) = "{namespace}" -> Namespace
            [] Head(fmt) = "{path}" -> get_prefix(g, "/")
            [] Head(fmt) = "{scope}" -> get_prefix(g, ".")
            [] Head(fmt) = "{hash}" -> stable_hash(hash.v, FALSE)
            [] Head(fmt) = "{short_hash}" -> stable_hash(hash.v, TRUE)
            [] OTHER -> Head(fmt))
         \o Rendered(Tail(fmt), g, hash, incr)

C9_Step ==
    (IsNaming(last') /\ last'.ok /\ Occurs("{incr}", FullFmt(last'))) =>
        LET g == gens[last'.g]
            fmt == FullFmt(last')
            k == RegKey(g, <<Seg(Concat(fmt))>>)
            reg == registries[g.registry]
            old == IF k \in DOMAIN reg THEN reg[k] ELSE 0
        IN  /\ registries'[g.registry][k] = old + 1
            /\ \A x \in DOMAIN registries'[g.registry] \ {k} :
                  x \in DOMAIN reg /\ registries'[g.registry][x] = reg[x]
            /\ \E n \in 0..MaxOps : last'.out = Rendered(fmt, g, last'.hash, ToString(n))

Exposed(hash) ==
    IF hash.given
    THEN {"{namespace}", "{path}", "{scope}", "{incr}", "{hash}", "{short_hash}"}
    ELSE {"{namespace}", "{path}", "{scope}", "{incr}"}

\* The replacement fields of a template.
FieldsOf(fmt) == {fmt[i] : i \in {j \in 1..Len(fmt) : fmt[j] \in Fields}}

\* One format step.
C16_Step ==
    last'.op = "format" =>
        /\ last'.ok <=> FieldsOf(last'.fmt) \subseteq Exposed(last'.hash)
        /\ ~last'.ok => (last'.err = "KeyError" /\ last'.out = "")
        /\ (Occurs("{hash}", last'.fmt) /\ ~last'.hash.given) => ~last'.ok

\* C16: a format call fails (format_map raises KeyError, the formatting
\* error) exactly when its template references a placeholder outside the
\* exposed set, which is namespace, path, scope and incr, and hash and
\* short_hash only when a hash argument is given; a template with {hash}
\* and hash=None fails.
C16_UnknownPlaceholder == [][C16_Step]_vars

C16_Witness ==
    /\ last.op = "format" /\ ~last.ok /\ last.err = "KeyError"
    /\ last.fmt = <<"{hash}">> /\ ~last.hash.given
    /\ gens[last.g].scope = <<Seg("a")>>
    /\ Total(registries[1]) > 0 /\ hashCalls > 0

\* One register step with no artifact and no template.
C17_Step ==
    (last'.op = "register" /\ last'.file = NoOp.file /\ last'.fmt = <<>>) =>
        /\ ~last'.ok
        /\ last'.err = "IndexError"
        /\ last'.out = ""
        /\ packs' = packs
        /\ registries' = registries
        /\ UNCHANGED <<pushed, meta, gens, issued, hashCalls, cache>>

\* C17: a register call with no positional argument and no render target
\* fails (args[0] raises IndexError, the invalid-argument error) and leaves
\* every container and the registry unchanged.
C17_RegisterNoArgs == [][C17_Step]_vars

C17_Witness ==
    /\ last.op = "register" /\ ~last.ok /\ last.err = "IndexError"
    /\ packs[gens[last.g].assets] # EmptyPack
    /\ packs[gens[last.g].data] # EmptyPack
    /\ Total(registries[gens[last.g].registry]) > 0

(***************************************************************************)
(* Uniqueness of generated names, checked under SpecUnique.                *)
(***************************************************************************)
\* C19: two path() calls with the default template made through generators
\* that share one registry and namespace return different paths, also when
\* the scopes of the two generators differ only in segments that are empty
\* or not strings.
C19_UniqueNames ==
    [][(/\ last.op = "path" /\ last'.op = "path"
        /\ last.ok /\ last'.ok
        /\ last.fmt = DefaultPathFmt /\ last'.fmt = DefaultPathFmt
        /\ gens[last.g].registry = gens[last'.g].registry)
       => last'.out # last.out]_vars

(***************************************************************************)
(* Properties of objective(), checked under SpecObjective.                 *)
(***************************************************************************)
\* The objective name of the call of template {incr} that drew count c for
\* registry key k (the project id, the scope, the template).
ObjectiveName(k, c) ==
    stable_hash(Rendered(DefaultObjectiveTemplate \o <<"{incr}">>,
                         [scope |-> SubSeq(k, 2, Len(k) - 1)], NoHash, ToString(c)), FALSE)

\* Every objective() call of template {incr} made so far, in any scope, has
\* its name in the scoreboard, and the names of one scope differ.
C12_Registered ==
    \A k \in DOMAIN issued[1] :
        /\ \A n \in 1..Len(issued[1][k]) :
              ObjectiveName(k, issued[1][k][n]) \in DOMAIN Scoreboard(meta)
        /\ \A m, n \in 1..Len(issued[1][k]) :
              m # n => ObjectiveName(k, issued[1][k][m]) # ObjectiveName(k, issued[1][k][n])

\* Two objective() calls in a row with the same arguments in the same scope.
C12_Step ==
    (/\ last.op = "objective" /\ last'.op = "objective"
     /\ gens[last.g].scope = gens[last'.g].scope
     /\ gens[last.g].registry = gens[last'.g].registry
     /\ last.fmt = last'.fmt /\ last.hash = last'.hash
     /\ last.criterion = last'.criterion /\ last.display = last'.display
     /\ Occurs("{incr}", last'.fmt)) =>
        /\ last.ok /\ last'.ok
        /\ last'.out # last.out
        /\ {last.out, last'.out} \subseteq DOMAIN Scoreboard(meta')
        /\ LET k == RegKey(gens[last'.g], <<Seg(Concat(ObjectiveTemplate \o last'.fmt))>>)
               r == gens[last'.g].registry
           IN  last'.out = ObjectiveName(k, issued'[r][k][Len(issued'[r][k])])

\* C12: two objective() calls with the same template containing {incr},
\* hash, criterion and display in the same scope return two different
\* objective names, and after both calls the generate_scoreboard map has an
\* entry for each of the two names.
C12_ObjectiveTwice == []C12_Registered /\ [][C12_Step]_vars

C12_Witness ==
    /\ last.op = "objective" /\ last.ok /\ last.fmt = <<"{incr}">> /\ last.display = "Score"
    /\ gens[last.g].scope = <<Seg("a")>>
    /\ \E k \in DOMAIN issued[1] :
          /\ issued[1][k] = <<0, 1>>
          /\ last.out = ObjectiveName(k, 1)
          /\ ObjectiveName(k, 0) \in DOMAIN Scoreboard(meta)
          /\ Scoreboard(meta)[ObjectiveName(k, 0)] = Scoreboard(meta)[last.out]

(***************************************************************************)
(* Properties of the cache-backed draft loop, checked under SpecCache.     *)
(***************************************************************************)
\* The key the bucket is expected to hold for a call: the caller's key and
\* the zipped flag as Python prints it.
WantKey(c) == c.key \o (IF c.zipped THEN " zipped=True" ELSE " zipped=False")

HoldsKey(c) ==
    LET b == Bucket(c.name)
    IN  "draft_key" \in DOMAIN b.json /\ b.json["draft_key"] = WantKey(c)

\* The snapshots persisted for a call's zipped flag; nothing where none was saved.
StoredAssets(c) ==
    LET p == IF c.zipped THEN "draft_resource_pack.zip" ELSE "draft_resource_pack"
    IN  IF p \in DOMAIN Bucket(c.name).files THEN Bucket(c.name).files[p] ELSE EmptyPack

StoredData(c) ==
    LET p == IF c.zipped THEN "draft_data_pack.zip" ELSE "draft_data_pack"
    IN  IF p \in DOMAIN Bucket(c.name).files THEN Bucket(c.name).files[p] ELSE EmptyPack

\* One step of a cache call that finds the effective key.
C1_Step ==
    \A i \in DOMAIN gens :
        (last'.op = "cache" /\ last'.g = i /\ HoldsKey(cyc'[i])) =>
            LET c == cyc'[i]
                d == gens[i]
            IN  /\ c.pc = "done"
                /\ c.yields = 0
                /\ DOMAIN packs'[d.assets] = DOMAIN packs[d.assets] \cup DOMAIN StoredAssets(c)
                /\ DOMAIN packs'[d.data] = DOMAIN packs[d.data] \cup DOMAIN StoredData(c)
                /\ packs[d.assets] = EmptyPack => packs'[d.assets] = StoredAssets(c)
                /\ packs[d.data] = EmptyPack => packs'[d.data] = StoredData(c)

\* C1: a cache call that finds the bucket's draft_key equal to the effective
\* key ends without yielding to the body (0 runs), and the draft, empty as
\* draft() made it, then holds exactly the persisted snapshots; the load adds
\* the snapshots' files to the draft and no others.
C1_CacheHit == [][C1_Step]_vars

C1_Witness ==
    /\ last.op = "cache"
    /\ cyc[last.g].path = "hit" /\ cyc[last.g].yields = 0 /\ ~cyc[last.g].apply
    /\ packs[gens[last.g].assets] = StoredAssets(cyc[last.g])
    /\ packs[gens[last.g].assets] # EmptyPack
    /\ \E j \in DOMAIN gens :
          /\ j # last.g
          /\ cyc[j].path = "miss" /\ cyc[j].pc = "done"
          /\ gens[j].assets # gens[last.g].assets
          /\ packs[gens[j].assets] = packs[gens[last.g].assets]

\* The steps of a cache cycle that does not find the effective key.
SameCall(c1, c2) == c1.name = c2.name /\ c1.key = c2.key /\ c1.zipped = c2.zipped

C2_Step ==
    /\ \A i \in DOMAIN gens : cyc'[i].yields <= 1
    /\ \A i \in DOMAIN gens :
          (last'.op = "cache" /\ last'.g = i /\ ~HoldsKey(cyc'[i])) =>
              /\ cyc'[i].pc = "yielded"
              /\ cyc'[i].yields = 1
              /\ cache' = cache
    /\ \A i \in DOMAIN gens :
          (last'.op = "resume" /\ last'.g = i) =>
              /\ cyc'[i].pc = "done"
              /\ cyc'[i].yields = 1
              /\ cyc[i].name \in DOMAIN cache'
              /\ "draft_key" \in DOMAIN cache'[cyc[i].name].json
              /\ cache'[cyc[i].name].json["draft_key"] = WantKey(cyc[i])
    /\ (last.op = "resume" /\ last'.op = "cache" /\ SameCall(cyc[last.g], cyc'[last'.g])) =>
              /\ cyc'[last'.g].path = "hit"
              /\ cyc'[last'.g].pc = "done"
              /\ cyc'[last'.g].yields = 0

\* C2: a cache call that does not find the effective key yields to the body
\* exactly once; when the cycle completes the bucket's draft_key is the
\* effective key, and a cache call that follows on the same bucket with the
\* same key and zipped flag is a hit that does not run the body.
C2_CacheMiss == [][C2_Step]_vars

C2_Witness ==
    /\ last.op = "cache"
    /\ cyc[last.g].path = "hit" /\ cyc[last.g].zipped
    /\ Bucket("mycache").json["draft_key"] = "v1 zipped=True"
    /\ \E j \in DOMAIN gens :
          /\ cyc[j].path = "miss" /\ cyc[j].pc = "done" /\ cyc[j].yields = 1
          /\ SameCall(cyc[j], cyc[last.g])

\* The call c with the zipped flag toggled.
Toggled(c) == [c EXCEPT !.zipped = ~c.zipped]

\* A cache call made when the bucket holds the key of the opposite flag,
\* and the resume that completes a cycle.
C11_Step ==
    /\ \A i \in DOMAIN gens :
          (last'.op = "cache" /\ last'.g = i /\ HoldsKey(Toggled(cyc'[i]))) =>
              /\ cyc'[i].path = "miss"
              /\ cyc'[i].pc = "yielded"
              /\ cyc'[i].yields = 1
    /\ (/\ last.op = "resume" /\ last'.op = "cache"
        /\ cyc[last.g].name = cyc'[last'.g].name
        /\ cyc[last.g].key = cyc'[last'.g].key
        /\ cyc[last.g].zipped # cyc'[last'.g].zipped) =>
              /\ cyc'[last'.g].path = "miss"
              /\ cyc'[last'.g].yields = 1
    /\ \A i \in DOMAIN gens :
          (last'.op = "resume" /\ last'.g = i /\ HoldsKey(Toggled(cyc[i]))) =>
              /\ HoldsKey(cyc[i])'
              /\ ~HoldsKey(Toggled(cyc[i]))'

\* C11: when the bucket's draft_key was stored for (key k, zipped z), a
\* cache call on that bucket with the same k and the opposite zipped value is
\* a miss that yields to the body, and when that cycle completes the stored
\* draft_key is the one of the new flag.
C11_ZippedToggle == [][C11_Step]_vars

C11_Witness ==
    /\ last.op = "resume"
    /\ cyc[last.g].key = "v1" /\ cyc[last.g].zipped /\ cyc[last.g].yields = 1
    /\ Bucket("mycache").json = [x \in {"draft_key"} |-> "v1 zipped=True"]
    /\ \E j \in DOMAIN gens :
          /\ j # last.g
          /\ cyc[j].path = "miss" /\ cyc[j].pc = "done"
          /\ cyc[j].name = "mycache" /\ cyc[j].key = "v1" /\ ~cyc[j].zipped

\* The packs of draft d are merged, once, into its parents; the other packs
\* outside the set kept stay as they are.
MergedOnce(d, kept) ==
    /\ packs'[d.parent_assets] = PackMerge(packs[d.parent_assets], packs'[d.assets])
    /\ packs'[d.parent_data] = PackMerge(packs[d.parent_data], packs'[d.data])
    /\ \A p \in DOMAIN packs \ (kept \cup {d.parent_assets, d.parent_data}) :
          packs'[p] = packs[p]

ParentsUnchanged(d) ==
    /\ packs'[d.parent_assets] = packs[d.parent_assets]
    /\ packs'[d.parent_data] = packs[d.parent_data]

\* The steps of a cache cycle: the call, which hits or misses, and the
\* resumption after the body.
C18_Step ==
    \A i \in DOMAIN gens :
        LET d == gens[i]
        IN  /\ (last'.op = "cache" /\ last'.g = i /\ cyc'[i].path = "hit") =>
                  /\ packs'[d.assets] = PackLoad(packs[d.assets], Bucket(cyc'[i].name).files,
                                                 CachedPaths(cyc'[i].zipped).rp)
                  /\ packs'[d.data] = PackLoad(packs[d.data], Bucket(cyc'[i].name).files,
                                               CachedPaths(cyc'[i].zipped).dp)
                  /\ IF cyc'[i].apply THEN MergedOnce(d, {d.assets, d.data})
                     ELSE ParentsUnchanged(d)
            /\ (last'.op = "cache" /\ last'.g = i /\ cyc'[i].path = "miss") =>
                  packs' = packs
            /\ (last'.op = "resume" /\ last'.g = i) =>
                  /\ HoldsKey(cyc[i])'
                  /\ packs'[d.assets] = packs[d.assets]
                  /\ packs'[d.data] = packs[d.data]
                  /\ IF cyc[i].apply THEN MergedOnce(d, {}) ELSE packs' = packs

\* C18: with apply=True a cache cycle merges the draft into the parent
\* containers exactly once, on a hit after the snapshots are loaded and on
\* a miss at the resumption, after the key is stored; with apply=False a
\* cache cycle leaves the parent containers unchanged.
C18_ApplyFlag == [][C18_Step]_vars

C18_Witness ==
    /\ last.op = "cache"
    /\ cyc[last.g].path = "hit" /\ cyc[last.g].apply
    /\ <<"FunctionTag", "ns:foo">> \in DOMAIN packs[gens[last.g].data]
    /\ packs[gens[last.g].parent_data][<<"FunctionTag", "ns:foo">>] = <<"v", "v">>
    /\ \E j \in DOMAIN gens :
          /\ j # last.g
          /\ cyc[j].path = "miss" /\ cyc[j].pc = "done" /\ cyc[j].apply
          /\ gens[j].parent_data = gens[last.g].parent_data

\* The resumption that completes a miss cycle, and a hit that follows it
\* on a draft that is empty.
C20_Step ==
    /\ \A i \in DOMAIN gens :
          (last'.op = "resume" /\ last'.g = i /\ ~HoldsKey(cyc[i])) =>
              /\ HoldsKey(cyc[i])'
              /\ StoredAssets(cyc[i])' = packs[gens[i].assets]
              /\ StoredData(cyc[i])' = packs[gens[i].data]
    /\ \A i \in DOMAIN gens :
          (/\ last.op = "resume" /\ last'.op = "cache" /\ last'.g = i
           /\ cyc'[i].path = "hit"
           /\ packs[gens[i].assets] = EmptyPack /\ packs[gens[i].data] = EmptyPack
           /\ ~(last.g = i /\ cyc'[i].apply)) =>
              /\ packs'[gens[i].assets] = packs[gens[last.g].assets]
              /\ packs'[gens[i].data] = packs[gens[last.g].data]

\* C20: the snapshots a bucket stores are those of the cycle that stored
\* its draft_key: when a miss cycle completes, the stored assets and data
\* are what its body left in the draft (nothing where the body left a
\* container empty), so that a hit populates the draft with exactly that
\* and never with content persisted under an earlier key.
C20_SnapshotsMatchKey == [][C20_Step]_vars

(***************************************************************************)
(* Properties of cache cycles that do not complete, checked under          *)
(* SpecAbort.                                                              *)
(***************************************************************************)
\* The steps of a miss cycle up to its abort: the call, the body's register
\* calls on the draft, the abort.
C14_Step ==
    /\ \A i \in DOMAIN gens :
          (last'.op = "cache" /\ last'.g = i /\ cyc'[i].path = "miss") =>
              /\ \A name \in DOMAIN cache' : Bucket(name)' = Bucket(name)
              /\ packs' = packs
    /\ \A i \in DOMAIN gens :
          (last'.op = "register" /\ last'.g = i /\ cyc[i].pc = "yielded") =>
              /\ \A name \in DOMAIN cache' : Bucket(name)' = Bucket(name)
              /\ packs'[gens[i].parent_assets] = packs[gens[i].parent_assets]
              /\ packs'[gens[i].parent_data] = packs[gens[i].parent_data]
    /\ \A i \in DOMAIN gens :
          (last'.op = "abort" /\ last'.g = i) =>
              /\ cyc[i].pc = "yielded" /\ cyc'[i].pc = "aborted"
              /\ \A name \in DOMAIN cache' : Bucket(name)' = Bucket(name)
              /\ packs' = packs
    /\ \A i \in DOMAIN gens :
          cyc[i].pc = "aborted" => (cyc'[i].pc # "done" \/ last'.op = "cache")

\* C14: a miss cycle abandoned at its yield (the body raised, or the
\* iterator was never resumed) persists nothing: the bucket's draft_key and
\* its stored snapshots are what they were before the cycle, and the parent
\* containers are unchanged.
C14_AbortPersistsNothing == [][C14_Step]_vars

C14_Witness ==
    /\ last.op = "abort"
    /\ cyc[last.g].key = "v2" /\ cyc[last.g].apply /\ cyc[last.g].yields = 1
    /\ packs[gens[last.g].assets] # EmptyPack
    /\ packs[gens[last.g].parent_assets] = EmptyPack
    /\ Bucket("mycache").json = [x \in {"draft_key"} |-> "v1 zipped=False"]
    /\ Bucket("mycache").files = [x \in {} |-> EmptyPack]

\* A resumption in which a save raises, and the cache call after it.
C15_Step ==
    /\ \A i \in DOMAIN gens :
          (last'.op = "savefail" /\ last'.g = i) =>
              /\ cyc[i].pc = "yielded" /\ cyc'[i].pc = "failed"
              /\ Bucket(cyc[i].name)'.json = Bucket(cyc[i].name).json
              /\ ~HoldsKey(cyc[i])
              /\ ~HoldsKey(cyc[i])'
              /\ packs' = packs
    /\ \A i \in DOMAIN gens :
          cyc[i].pc = "failed" => (cyc'[i].pc # "done" \/ last'.op = "cache")
    /\ (last.op = "savefail" /\ last'.op = "cache" /\ SameCall(cyc[last.g], cyc'[last'.g])) =>
              /\ cyc'[last'.g].path = "miss"
              /\ cyc'[last'.g].yields = 1

\* C15: when a save of the miss path raises, the resumption ends there: the
\* bucket's draft_key is not set to the new effective key and apply() is
\* not performed, the save is not tried again, and a cache call with the
\* same name, key and zipped flag that follows is a miss.
C15_SaveFailurePropagates == [][C15_Step]_vars

C15_Witness ==
    /\ last.op = "savefail"
    /\ cyc[last.g].apply /\ cyc[last.g].zipped
    /\ packs[gens[last.g].assets] # EmptyPack
    /\ packs[gens[last.g].data] # EmptyPack
    /\ packs[gens[last.g].parent_assets] = EmptyPack
    /\ packs[gens[last.g].parent_data] = EmptyPack
    /\ "draft_key" \notin DOMAIN Bucket("mycache").json
    /\ DOMAIN Bucket("mycache").files = {"draft_resource_pack.zip"}

(***************************************************************************)
(* Properties of drafts, checked under SpecDraft.                          *)
(***************************************************************************)
IsSuffix(a, b) == Len(a) <= Len(b) /\ SubSeq(b, Len(b) - Len(a) + 1, Len(b)) = a

\* Artifact a is present in content b of the parent: as it is, or, for a
\* list-like file, as the values the merge appended.
Present(a, b, type) == IF type \in ListLikeTypes THEN IsSuffix(a, b) ELSE b = a

\* One apply step.
C3_Step ==
    \A i \in DOMAIN gens :
        (last'.op = "apply" /\ last'.g = i) =>
            LET d == gens[i]
            IN  /\ \A k \in DOMAIN packs[d.assets] :
                      /\ k \in DOMAIN packs'[d.parent_assets]
                      /\ Present(packs[d.assets][k], packs'[d.parent_assets][k], k[1])
                /\ \A k \in DOMAIN packs[d.data] :
                      /\ k \in DOMAIN packs'[d.parent_data]
                      /\ Present(packs[d.data][k], packs'[d.parent_data][k], k[1])

\* C3: after Draft.apply() every artifact staged in the draft under a key is
\* present in the parent's corresponding container at that key: assets in
\* parent_assets, data in parent_data.
C3_ApplyMerges == [][C3_Step]_vars

C3_Witness ==
    /\ last.op = "apply"
    /\ packs[gens[last.g].assets] # EmptyPack
    /\ packs[gens[last.g].data] # EmptyPack
    /\ <<"Texture", "ns:foo">> \in DOMAIN packs[gens[last.g].assets]
    /\ packs[gens[last.g].parent_assets][<<"Texture", "ns:foo">>] = <<"q">>
    /\ packs[gens[last.g].parent_data] = packs[gens[last.g].data]

\* C4: a second Draft.apply() on the same draft is a no-op: the parent
\* containers after two applies equal those after one, list-like artifacts
\* included.
C4_SecondApplyNoOp ==
    [][(last.op = "apply" /\ last'.op = "apply" /\ last'.g = last.g) => packs' = packs]_vars

\* One draft() step, one register step on a draft.
C5_Step ==
    /\ last'.op = "draft" =>
          LET g == gens[last'.g]
              d == gens'[last'.n]
          IN  /\ d.cls = "Draft" /\ d.scope = g.scope /\ d.registry = g.registry
              /\ d.parent_assets = g.assets /\ d.parent_data = g.data
              /\ d.assets \notin 1..Len(packs) /\ d.data \notin 1..Len(packs)
              /\ d.assets # d.data
              /\ packs'[d.assets] = EmptyPack /\ packs'[d.data] = EmptyPack
              /\ \A p \in 1..Len(packs) : packs'[p] = packs[p]
    /\ \A i \in DOMAIN gens :
          (last'.op = "register" /\ last'.g = i /\ gens[i].cls = "Draft") =>
              /\ packs'[gens[i].parent_assets] = packs[gens[i].parent_assets]
              /\ packs'[gens[i].parent_data] = packs[gens[i].parent_data]

\* C5: draft() returns a Draft with the receiver's scope and registry, two
\* new empty packs of its own, and the receiver's packs as parents; a
\* register call on a draft leaves the parent's assets and data unchanged.
C5_DraftIsolation == [][C5_Step]_vars

C5_Witness ==
    /\ last.op = "register" /\ last.ok
    /\ gens[last.g].cls = "Draft"
    /\ packs[gens[last.g].assets] # EmptyPack
    /\ packs[gens[last.g].data] # EmptyPack
    /\ packs[gens[last.g].parent_assets] = [k \in {<<"Texture", "ns:foo">>} |-> <<"p">>]
    /\ packs[gens[last.g].parent_data] = EmptyPack

\* One register step that returns.
C13_Step ==
    \A i \in DOMAIN gens :
        (last'.op = "register" /\ last'.g = i /\ last'.ok) =>
            LET g == gens[i]
                f == last'.file
                isdata == f.type \in DataTypes
                dest == IF isdata THEN g.data ELSE g.assets
                other == IF isdata THEN g.assets ELSE g.data
                k == <<f.type, last'.out>>
                fmt == PathTemplate \o (IF last'.fmt # <<>> THEN last'.fmt ELSE DefaultPathFmt)
            IN  /\ dest # other
                /\ \E n \in 0..MaxOps :
                      last'.out = Rendered(fmt, g, SomeHash(Concat(f.content)), ToString(n))
                /\ k \in DOMAIN packs'[dest]
                /\ packs'[dest][k] = f.content
                /\ DOMAIN packs'[dest] = DOMAIN packs[dest] \cup {k}
                /\ \A x \in DOMAIN packs[dest] \ {k} : packs'[dest][x] = packs[dest][x]
                /\ packs'[other] = packs[other]
                /\ \A p \in DOMAIN packs \ {dest} : packs'[p] = packs[p]

\* C13: a register call picks the data container when the artifact's type
\* is a data type and the assets container otherwise, inserts the artifact
\* into that container at the key it computed, returns that key, and leaves
\* the other container unchanged.
C13_RegisterDestination == [][C13_Step]_vars

C13_Witness ==
    /\ last.op = "register" /\ last.ok
    /\ last.file.type = "FunctionTag" /\ last.out = "ns:foo"
    /\ packs[gens[last.g].data] = [k \in {<<"FunctionTag", "ns:foo">>} |-> <<"v">>]
    /\ packs[gens[last.g].assets] = [k \in {<<"Texture", "ns:generated_0">>} |-> <<"p">>]

\* One generator[key] step.
C10_Step ==
    last'.op = "getitem" =>
        LET r == gens[last'.g]
            c == gens'[last'.n]
        IN  /\ last'.n = Len(gens) + 1 /\ Len(gens') = Len(gens) + 1
            /\ \A j \in DOMAIN gens : gens'[j] = gens[j]
            /\ packs' = packs /\ registries' = registries
            /\ \E key \in SegChoices : c.scope = r.scope \o <<key>>
            /\ Len(c.scope) = Len(r.scope) + 1
            /\ c.cls = r.cls /\ c.registry = r.registry
            /\ c.assets = r.assets /\ c.data = r.data
            /\ c.parent_assets = r.parent_assets /\ c.parent_data = r.parent_data

\* C10: generator[key] leaves the receiver, every other instance, the packs
\* and the registries unchanged; the child has the receiver's class, its
\* scope extended by the one segment key, and the receiver's registry,
\* assets, data, parent_assets and parent_data.
C10_WithScope == [][C10_Step]_vars

C10_Witness ==
    /\ last.op = "getitem"
    /\ gens[last.g].cls = "Draft"
    /\ gens[last.g].scope = <<Seg("a")>>
    /\ gens[last.n].scope = <<Seg("a"), Seg("a")>>
    /\ packs[gens[last.n].assets] # EmptyPack

(***************************************************************************)
(* Properties of nested drafts, checked under SpecNested.                  *)
(***************************************************************************)
\* Draft c was made by draft(), or by scoping a draft so made, from a
\* generator working on the packs of p.
ChildOf(c, p) ==
    /\ gens[c].cls = "Draft"
    /\ gens[c].parent_assets = gens[p].assets
    /\ gens[c].parent_data = gens[p].data

\* Every artifact of draft c is present in the packs pa, pd.
AllPresent(c, pk, pa, pd) ==
    /\ \A k \in DOMAIN pk[gens[c].assets] :
          k \in DOMAIN pk[pa] /\ Present(pk[gens[c].assets][k], pk[pa][k], k[1])
    /\ \A k \in DOMAIN pk[gens[c].data] :
          k \in DOMAIN pk[pd] /\ Present(pk[gens[c].data][k], pk[pd][k], k[1])

\* A draft() call on a draft D1 of G makes a draft whose parents are D1's
\* containers, which are not G's.
C22_Made ==
    (last'.op = "draft" /\ gens[last'.g].cls = "Draft") =>
        LET d1 == gens[last'.g]
            d2 == gens'[last'.n]
        IN  /\ d2.parent_assets = d1.assets /\ d2.parent_data = d1.data
            /\ d2.parent_assets # d1.parent_assets /\ d2.parent_data # d1.parent_data
            /\ {d2.assets, d2.data} \cap {d1.assets, d1.data, d1.parent_assets, d1.parent_data} = {}

\* The steps of D2, a draft of the draft D1 of G.
C22_Step ==
    \A d2, d1 \in DOMAIN gens :
        (ChildOf(d2, d1) /\ gens[d1].cls = "Draft") =>
            LET ga == gens[d1].parent_assets
                gd == gens[d1].parent_data
            IN  /\ (last'.g = d2 /\ last'.op \in {"register", "apply"}) =>
                      /\ packs'[ga] = packs[ga]
                      /\ packs'[gd] = packs[gd]
                /\ (last'.g = d2 /\ last'.op = "apply") =>
                      /\ \A p \in DOMAIN packs \ {gens[d1].assets, gens[d1].data} :
                            packs'[p] = packs[p]
                      /\ AllPresent(d2, packs', gens[d1].assets, gens[d1].data)
                /\ (last.op = "apply" /\ last.g = d2 /\ last'.op = "apply" /\ last'.g = d1) =>
                      AllPresent(d2, packs', ga, gd)

\* C22: for a draft D2 made from a draft D1 made from generator G,
\* D2.apply() changes only D1's containers and leaves G's unchanged, as do
\* the register calls on D2; after D2.apply() followed by D1.apply() the
\* artifacts staged in D2 are in G's containers.
C22_NestedDrafts == [][C22_Made /\ C22_Step]_vars

C22_Witness ==
    /\ last.op = "apply"
    /\ ChildOf(last.g, 1)
    /\ Total(registries[1]) = 1
    /\ packs[1] = [k \in {<<"Texture", "ns:generated_0">>} |-> <<"p">>]
    /\ packs[gens[last.g].assets] = packs[1]
    /\ \E d2 \in DOMAIN gens :
          /\ ChildOf(d2, last.g)
          /\ packs[gens[d2].assets] = packs[1]

(***************************************************************************)
(* Equivalence of the build that loads the draft from the cache and the    *)
(* build that generated it, checked under SpecBuilds.                      *)
(***************************************************************************)
\* The second build, whose block hit the cache, has ended.
HitBuildEnded ==
    /\ last.op = "after"
    /\ Cardinality(Roots) = 2
    /\ cyc[2].path = "miss" /\ cyc[2].pc = "done"
    /\ cyc[CurrentDraft].path = "hit"

\* C21: for the same generation calls before, inside and after a cached
\* draft block with apply=True, each build starting from a fresh registry,
\* the containers of ctx.generate at the end of the build that hit the cache
\* equal those at the end of the build that missed, also when the body and
\* the code after the block draw names with {incr} in the same scope.
C21_HitEqualsMiss ==
    HitBuildEnded =>
        /\ packs[gens[CurrentRoot].assets] = packs[gens[1].assets]
        /\ packs[gens[CurrentRoot].data] = packs[gens[1].data]

(***************************************************************************)
(* Generator.push: a context manager that writes the receiver's scope and  *)
(* four packs into the root generator (ctx.generate, gens[1]) for the      *)
(* length of a with-block, and writes back what it saved when the block    *)
(* ends, by return or by exception (try / finally).  Each open block keeps *)
(* its own previous_* locals; with-blocks end innermost first.             *)
(***************************************************************************)
MaxPush == 2

PushFields == {"scope", "assets", "data", "parent_assets", "parent_data"}

\* The previous_* locals of one call.
push_save(root) == [f \in PushFields |-> root[f]]

push_enter(root, self) ==
    [root EXCEPT !.scope = self.scope, !.assets = self.assets, !.data = self.data,
                 !.parent_assets = self.parent_assets,
                 !.parent_data = self.parent_data]

\* A finally block that forgets the parents.
push_exit_partial(root, previous) ==
    [root EXCEPT !.scope = previous.scope, !.assets = previous.assets,
                 !.data = previous.data]

push_exit(root, previous) ==
    [root EXCEPT !.scope = previous.scope, !.assets = previous.assets,
                 !.data = previous.data,
                 !.parent_assets = previous.parent_assets,
                 !.parent_data = previous.parent_data]

PushEnter(i) ==
    /\ Len(pushed) < MaxPush
    /\ pushed' = Append(pushed, [g |-> i, previous |-> push_save(gens[1])])
    /\ gens' = [gens EXCEPT ![1] = push_enter(gens[1], gens[i])]
    /\ last' = [NoOp EXCEPT !.op = "push", !.g = i]
    /\ UNCHANGED <<meta, packs, registries, issued, hashCalls, cache, cyc, work>>

\* The ways a with-block ends.
ExitKinds == {"return", "raise"}

PushExit(how) ==
    /\ pushed # <<>>
    /\ gens' = [gens EXCEPT ![1] = push_exit(gens[1], pushed[Len(pushed)].previous)]
    /\ pushed' = SubSeq(pushed, 1, Len(pushed) - 1)
    /\ last' = [NoOp EXCEPT !.op = "pop", !.g = pushed[Len(pushed)].g,
                            !.ok = (how = "return"),
                            !.err = IF how = "raise" THEN "Exception" ELSE ""]
    /\ UNCHANGED <<meta, packs, registries, issued, hashCalls, cache, cyc, work>>

\* Generator(ctx): an instance built by the dataclass constructor, with the
\* registry and the four packs of its default factories.
Construct ==
    /\ Used < MaxOps
    /\ work < MaxWork
    /\ gens' = Append(gens, NewGen("Generator", <<>>, Len(registries) + 1,
                                   Len(packs) + 1, Len(packs) + 2,
                                   Len(packs) + 3, Len(packs) + 4))
    /\ packs' = packs \o <<EmptyPack, EmptyPack, EmptyPack, EmptyPack>>
    /\ registries' = Append(registries, EmptyFn)
    /\ issued' = Append(issued, EmptyFn)
    /\ cyc' = Append(cyc, Idle)
    /\ work' = work + 1
    /\ last' = [NoOp EXCEPT !.op = "construct", !.n = Len(gens) + 1]
    /\ UNCHANGED <<pushed, meta, hashCalls, cache>>

\* The runs: the root is scoped and drafts are made, inside blocks and
\* outside, and one generator is constructed apart from the root.
InPushRun == Len(gens) < MaxOps

NextPush ==
    \/ InPushRun /\ GetItem(1, Seg("a"))
    \/ \E i \in GenIds : InPushRun /\ DraftNew(i)
    \/ InPushRun /\ Len(registries) = 1 /\ Construct
    \/ \E i \in GenIds : PushEnter(i)
    \/ \E how \in ExitKinds : PushExit(how)

SpecPush == InitDraft /\ [][NextPush]_vars

(***************************************************************************)
(* Properties of push.                                                     *)
(***************************************************************************)
\* The root generator as the build made it.
RootAtStart == NewGen("Generator", <<>>, 1, 1, 2, 3, 4)

\* What the root's five fields are to be with the n outermost blocks open:
\* those of the generator pushed by block n, which are the root's own one
\* level out when that generator is the root.
RECURSIVE RootFieldsAt(_)
RootFieldsAt(n) ==
    IF n = 0 THEN push_save(RootAtStart)
    ELSE IF pushed[n].g = 1 THEN RootFieldsAt(n - 1)
    ELSE push_save(gens[pushed[n].g])

\* C23: push() is a balanced temporary override of the root generator.  In
\* every state the root's scope, assets, data, parent_assets and parent_data
\* are those of the generator pushed by the innermost open block, and with
\* no block open those it had before the outermost push; the root's
\* registry and class are never changed.
C23_Balanced ==
    /\ push_save(gens[1]) = RootFieldsAt(Len(pushed))
    /\ gens[1].registry = RootAtStart.registry
    /\ gens[1].cls = RootAtStart.cls

\* Every step that enters a block gives the root the five fields of the
\* receiver and leaves its registry; every step that leaves one, by return
\* or by exception, gives back the five fields the root had at the entry of
\* that block.
C23_Step ==
    /\ last'.op = "push" =>
          /\ push_save(gens'[1]) = push_save(gens[last'.g])
          /\ gens'[1].registry = gens[1].registry
    /\ last'.op = "pop" =>
          /\ push_save(gens'[1]) = RootFieldsAt(Len(pushed) - 1)
          /\ gens'[1].registry = gens[1].registry

C23_PushBalanced == []C23_Balanced /\ [][C23_Step]_vars

\* Two blocks were open, the outer one of a draft under scope "a", the
\* inner one of a generator with a registry of its own; the inner block has
\* ended by exception and the root has the draft's five fields again.
C23_Witness ==
    /\ last.op = "pop"
    /\ last.err = "Exception"
    /\ Len(pushed) = 1
    /\ gens[pushed[1].g].cls = "Draft"
    /\ gens[pushed[1].g].scope = <<Seg("a")>>
    /\ gens[last.g].registry # 1
    /\ push_save(gens[1]) = push_save(gens[pushed[1].g])
    /\ push_save(gens[1]) # push_save(RootAtStart)
    /\ gens[1].registry = 1

(***************************************************************************)
(* ProjectBuilder.__call__: a pipeline item that is a configuration and    *)
(* not a plugin name is built as a project of its own (build: a new        *)
(* Context, so a new ctx.generate with its registry and packs, and the     *)
(* child's pipeline run on it), and the builder merges the child's assets  *)
(* and data into the context of the pipeline it is an item of, unless the  *)
(* child has an output directory.  The pipeline of the child is a sequence *)
(* of register calls on its ctx.generate.                                  *)
(***************************************************************************)
NoOutput == "<None>"

\* Project.output_directory: the directory joined with config.output, or
\* None when config.output is None or the empty string.
output_directory(output) ==
    IF output # NoOutput /\ output # "" THEN "dir/" \o output ELSE NoOutput

\* A builder that merges whatever the child's output is.
project_call_always(parent, child, outdir) ==
    [assets |-> PackMerge(parent.assets, child.assets),
     data |-> PackMerge(parent.data, child.data)]

\* The packs of ctx after the call, from the packs of ctx and of child_ctx.
project_call(parent, child, outdir) ==
    IF outdir # NoOutput THEN parent
    ELSE [assets |-> PackMerge(parent.assets, child.assets),
          data |-> PackMerge(parent.data, child.data)]

ChildConfigs ==
    [output   : {NoOutput, "", "out"},
     pipeline : { <<>>,
                  << <<<<>>, File("Texture", <<"q">>)>> >>,
                  << <<<<"foo">>, File("FunctionTag", <<"w">>)>> >>,
                  << <<<<"foo">>, File("Texture", <<"q">>)>>,
                     <<<<"foo">>, File("FunctionTag", <<"v">>)>> >> }]

\* The builder of config runs as a plugin of the pipeline of generator i's
\* context, i being that context's ctx.generate.
ProjectCall(i, config) ==
    LET c == Len(gens) + 1
        child == NewGen("Generator", <<>>, Len(registries) + 1, Len(packs) + 1,
                        Len(packs) + 2, Len(packs) + 3, Len(packs) + 4)
        s == RunCalls(child, config.pipeline,
                      [packs |-> packs \o <<EmptyPack, EmptyPack, EmptyPack, EmptyPack>>,
                       reg |-> EmptyFn, hc |-> hashCalls, log |-> <<>>, ok |-> TRUE])
        outdir == output_directory(config.output)
        after == project_call([assets |-> s.packs[gens[i].assets],
                               data |-> s.packs[gens[i].data]],
                              [assets |-> s.packs[child.assets],
                               data |-> s.packs[child.data]], outdir)
    IN  /\ work < MaxWork
        /\ gens' = Append(gens, child)
        /\ cyc' = Append(cyc, Idle)
        /\ registries' = Append(registries, s.reg)
        /\ issued' = Append(issued, LogIssued(EmptyFn, s.log))
        /\ hashCalls' = s.hc
        /\ packs' = [s.packs EXCEPT ![gens[i].assets] = after.assets,
                                    ![gens[i].data] = after.data]
        /\ work' = work + 1
        /\ last' = [NoOp EXCEPT !.op = "project", !.g = i, !.n = c, !.out = outdir]
        /\ UNCHANGED <<pushed, meta, cache>>

\* The parent pipeline: register calls on its ctx.generate and child
\* projects.
NextProject ==
    \/ \E c \in RegisterChoices : InDraftRun /\ Register(1, c[1], c[2])
    \/ \E config \in ChildConfigs : InDraftRun /\ ProjectCall(1, config)

SpecProject == InitDraft /\ [][NextProject]_vars

(***************************************************************************)
(* Properties of a project built as a plugin.                              *)
(***************************************************************************)
\* The assets and data of the context whose ctx.generate is generator i.
CtxPacks(ps, i) == [assets |-> ps[gens[i].assets], data |-> ps[gens[i].data]]

\* C24: when a ProjectBuilder runs as a plugin of a parent pipeline, a
\* child without an output directory has its assets and data merged into
\* the parent context's (every file of the child is in the parent, a
\* list-like file appended to the parent's, any other replacing it, and
\* the parent's other files stay), and a child with an output directory
\* leaves the parent context's assets and data as they were.
C24_Step ==
    last'.op = "project" =>
        LET parent == CtxPacks(packs, last'.g)
            parent2 == CtxPacks(packs', last'.g)
            child == [assets |-> packs'[gens'[last'.n].assets],
                      data |-> packs'[gens'[last'.n].data]]
        IN  IF last'.out = NoOutput
            THEN \A f \in {"assets", "data"} :
                    /\ DOMAIN parent2[f] = DOMAIN parent[f] \cup DOMAIN child[f]
                    /\ \A k \in DOMAIN parent2[f] :
                          parent2[f][k] =
                             IF k \notin DOMAIN child[f] THEN parent[f][k]
                             ELSE IF k \in DOMAIN parent[f] /\ k[1] \in ListLikeTypes
                                  THEN parent[f][k] \o child[f][k]
                             ELSE child[f][k]
            ELSE parent2 = parent

C24_ProjectPlugin == [][C24_Step]_vars

\* A child without an output directory (config.output the empty string)
\* has replaced the parent's texture foo and extended the parent's tag foo.
C24_Witness ==
    /\ last.op = "project"
    /\ last.out = NoOutput
    /\ <<"Texture", "ns:foo">> \in DOMAIN packs[gens[last.n].assets]
    /\ packs[1][<<"Texture", "ns:foo">>] = <<"q">>
    /\ <<"FunctionTag", "ns:foo">> \in DOMAIN packs[2]
    /\ Len(packs[2][<<"FunctionTag", "ns:foo">>]) = 2

====
